---- MODULE Spec2Model ----
(***************************************************************************)
(* Model of the chat client in frontend/src/App.tsx (roma-weather): the    *)
(* transcript, the loading flag, the connection indicator, the WebSocket   *)
(* opened by the mount effect and the POST /chat fallback.                 *)
(*                                                                         *)
(* The browser is the environment.  A handler runs to completion and the   *)
(* component is re-rendered before the next event is dispatched, so each   *)
(* handler reads the current state through its closure.  A WebSocket moves *)
(* CONNECTING -> OPEN -> CLOSING -> CLOSED; the change to CLOSING (start   *)
(* of the closing handshake) is a task of its own, the change to CLOSED    *)
(* is made in the task that fires the error and close events.  Frames are  *)
(* delivered only to an OPEN socket.  The server is free to send any       *)
(* frame at any time.                                                      *)
(***************************************************************************)
EXTENDS Integers, Sequences, FiniteSets, TLC

\* Cap on accepted submissions (handleSend past its guard).
MaxSubmits == 2
\* Cap on inbound WebSocket frames delivered.
MaxFrames == 1

VARIABLES
    phase,            \* position in the mount sequence of main.tsx / the effect
    strictMode,       \* the build double-invokes effects (React.StrictMode, development)
    wsUrlValid,       \* new WebSocket(WS_URL) does not throw
    messages,         \* useState<Message[]>
    input,            \* useState<string>
    isLoading,        \* useState<boolean>
    connectionStatus, \* useState<'connected' | 'rest' | 'disconnected'>
    wsRef,            \* wsRef.current: 0 is null, else the socket's number
    readyState,       \* readyState of each socket ever constructed
    wsOut,            \* frames written with ws.send, in order
    calls,            \* POST /chat calls issued, with their request body and fate
    submissions,      \* accepted submissions, with what held when handleSend was invoked
    framesIn,         \* number of inbound frames dispatched to ws.onmessage
    uncaught          \* an exception has escaped a handler

vars == <<phase, strictMode, wsUrlValid, messages, input, isLoading,
          connectionStatus, wsRef, readyState, wsOut, calls, submissions,
          framesIn, uncaught>>

Sockets == {1, 2}
NoData == "null"

\* The texts the user can have in the input box, as character sequences.
InputTexts == { <<>>, <<" ">>, <<" ", "a">> }

RECURSIVE TrimStart(_)
TrimStart(s) == IF s # <<>> /\ Head(s) = " " THEN TrimStart(Tail(s)) ELSE s

RECURSIVE TrimEnd(_)
TrimEnd(s) == IF s # <<>> /\ s[Len(s)] = " " THEN TrimEnd(SubSeq(s, 1, Len(s) - 1)) ELSE s

\* String.prototype.trim
Trim(s) == TrimEnd(TrimStart(s))

\* The seeded welcome message.
WelcomeMessage ==
    [role |-> "assistant", content |-> <<"Hello!", "I'm your ROMA Weather Assistant.">>,
     weatherData |-> NoData]

\* Inbound frames the server may send: event.data either parses as JSON into
\* {role, content, data, timestamp} or does not parse.
Frames ==
    { [json |-> TRUE,  role |-> "assistant", content |-> <<"Sunny">>, data |-> "wx"],
      [json |-> FALSE, role |-> "none",      content |-> <<>>,        data |-> NoData] }

\* Fates of a POST /chat call.
RestOutcomes == {"ok", "http500", "network", "badjson"}

\* [...prev, m] with a prepend instead of an append.
AppendMessage_Prepend(prev, m) == <<m>> \o prev

\* setMessages(prev => [...prev, m])
AppendMessage(prev, m) == Append(prev, m)

\* The readyState test against the wrong constant.
SendViaWebSocket_WrongState(ref, rs) == ref # 0 /\ rs[ref] = "CONNECTING"

\* sendViaWebSocket's condition: wsRef.current && readyState === WebSocket.OPEN
SendViaWebSocket(ref, rs) == ref # 0 /\ rs[ref] = "OPEN"

\* history built from the transcript with the new user message already in it.
RequestBody_WithUserMessage(message, msgs) ==
    [message |-> message,
     history |-> Append(msgs, [role |-> "user", content |-> message, weatherData |-> NoData])]

\* The body of the POST /chat request: {message, history: messages}
RequestBody(message, msgs) == [message |-> message, history |-> msgs]

\* error.message of what the try block throws ('Unknown error' for a non-Error).
ErrorMessageOf(outcome) ==
    CASE outcome = "http500" -> "HTTP error! status: 500"
      [] outcome = "network" -> "Failed to fetch"
      [] outcome = "badjson" -> "Unexpected token < in JSON at position 0"
      [] OTHER               -> "Unknown error"

\* The catch block's text without its fixed prefix.
RestErrorContent_Bare(outcome) == << ErrorMessageOf(outcome) >>

\* `Error connecting to server: ${errorMessage}. Make sure the backend ...`
\* as the sequence of its pieces, the first word apart.
RestErrorContent(outcome) ==
    << "Error", " connecting to server: ", ErrorMessageOf(outcome),
       ". Make sure the backend is running on port 5000." >>

\* The message sendViaREST appends for a call with the given fate.
RestMessage(outcome) ==
    IF outcome = "ok"
    THEN [role |-> "assistant", content |-> <<"It's 15C and cloudy.">>, weatherData |-> "wx"]
    ELSE [role |-> "assistant", content |-> RestErrorContent(outcome), weatherData |-> NoData]

\* The message ws.onmessage builds from a parsed frame.
FrameMessage(f) == [role |-> f.role, content |-> f.content, weatherData |-> f.data]

Init ==
    /\ phase = "init"
    /\ strictMode \in BOOLEAN
    /\ wsUrlValid \in BOOLEAN
    /\ messages = << WelcomeMessage >>
    /\ input = <<>>
    /\ isLoading = FALSE
    /\ connectionStatus = "disconnected"
    /\ wsRef = 0
    /\ readyState = [s \in Sockets |-> "NONE"]
    /\ wsOut = <<>>
    /\ calls = <<>>
    /\ submissions = <<>>
    /\ framesIn = 0
    /\ uncaught = FALSE

\* The mount effect: the first run, and under StrictMode the run after the cleanup.
EffectRun ==
    /\ phase \in {"init", "cleaned"}
    /\ LET s == IF phase = "init" THEN 1 ELSE 2
       IN IF wsUrlValid
          THEN /\ readyState' = [readyState EXCEPT ![s] = "CONNECTING"]
               /\ wsRef' = s
               /\ UNCHANGED connectionStatus
          ELSE /\ connectionStatus' = "rest"
               /\ UNCHANGED <<readyState, wsRef>>
    /\ phase' = IF phase = "init" /\ strictMode THEN "effect1" ELSE "mounted"
    /\ UNCHANGED <<strictMode, wsUrlValid, messages, input, isLoading, wsOut,
                   calls, submissions, framesIn, uncaught>>

\* StrictMode's simulated unmount: the cleanup the first run returned, ws.close().
EffectCleanup ==
    /\ phase = "effect1"
    /\ phase' = "cleaned"
    /\ readyState' = IF wsUrlValid THEN [readyState EXCEPT ![1] = "CLOSING"] ELSE readyState
    /\ UNCHANGED <<strictMode, wsUrlValid, messages, input, isLoading,
                   connectionStatus, wsRef, wsOut, calls, submissions, framesIn,
                   uncaught>>

\* ws.onopen
WsOpen(s) ==
    /\ phase = "mounted"
    /\ readyState[s] = "CONNECTING"
    /\ readyState' = [readyState EXCEPT ![s] = "OPEN"]
    /\ connectionStatus' = "connected"
    /\ UNCHANGED <<phase, strictMode, wsUrlValid, messages, input, isLoading,
                   wsRef, wsOut, calls, submissions, framesIn, uncaught>>

\* The server starts the closing handshake: no handler runs.
WsStartClosing(s) ==
    /\ phase = "mounted"
    /\ readyState[s] = "OPEN"
    /\ readyState' = [readyState EXCEPT ![s] = "CLOSING"]
    /\ UNCHANGED <<phase, strictMode, wsUrlValid, messages, input, isLoading,
                   connectionStatus, wsRef, wsOut, calls, submissions, framesIn,
                   uncaught>>

\* ws.onerror
OnError(status) == "rest"

\* ws.onclose
OnClose(status) == "rest"

\* The connection is closed: ws.onerror when it failed, then ws.onclose.
WsClosed(s) ==
    /\ phase = "mounted"
    /\ readyState[s] \in {"CONNECTING", "OPEN", "CLOSING"}
    /\ readyState' = [readyState EXCEPT ![s] = "CLOSED"]
    /\ \E failed \in BOOLEAN :
          /\ (readyState[s] = "CONNECTING") => failed
          /\ connectionStatus' =
                IF failed THEN OnClose(OnError(connectionStatus))
                          ELSE OnClose(connectionStatus)
    /\ UNCHANGED <<phase, strictMode, wsUrlValid, messages, input, isLoading,
                   wsRef, wsOut, calls, submissions, framesIn, uncaught>>

\* ws.onmessage
WsMessage(s, f) ==
    /\ phase = "mounted"
    /\ readyState[s] = "OPEN"
    /\ framesIn < MaxFrames
    /\ framesIn' = framesIn + 1
    /\ IF f.json
       THEN /\ messages' = AppendMessage(messages, FrameMessage(f))
            /\ isLoading' = FALSE
            /\ UNCHANGED uncaught
       ELSE /\ uncaught' = TRUE
            /\ UNCHANGED <<messages, isLoading>>
    /\ UNCHANGED <<phase, strictMode, wsUrlValid, input, connectionStatus, wsRef,
                   readyState, wsOut, calls, submissions>>

\* The input's onChange; the input is disabled while isLoading.
TypeInput(s) ==
    /\ phase = "mounted"
    /\ ~isLoading
    /\ s # input
    /\ input' = s
    /\ UNCHANGED <<phase, strictMode, wsUrlValid, messages, isLoading,
                   connectionStatus, wsRef, readyState, wsOut, calls, submissions,
                   framesIn, uncaught>>

\* handleSend up to its await (or to its end when the frame went out on the socket).
HandleSend ==
    /\ phase = "mounted"
    /\ IF Trim(input) = <<>> \/ isLoading
       THEN UNCHANGED vars
       ELSE /\ Len(submissions) < MaxSubmits
            /\ LET userMessage == [role |-> "user", content |-> input, weatherData |-> NoData]
                   sentViaWS   == SendViaWebSocket(wsRef, readyState)
                   n           == Len(submissions) + 1
               IN /\ messages' = AppendMessage(messages, userMessage)
                  /\ input' = <<>>
                  /\ isLoading' = TRUE
                  /\ wsOut' = IF sentViaWS
                              THEN Append(wsOut, [sub |-> n, socket |-> wsRef, content |-> input])
                              ELSE wsOut
                  /\ calls' = IF sentViaWS
                              THEN calls
                              ELSE Append(calls, [sub |-> n, body |-> RequestBody(input, messages),
                                                  status |-> "pending"])
                  /\ submissions' = Append(submissions,
                        [content |-> input,
                         before  |-> messages,
                         status  |-> connectionStatus,
                         wsOpen  |-> (wsRef # 0 /\ readyState[wsRef] = "OPEN")])
            /\ UNCHANGED <<phase, strictMode, wsUrlValid, connectionStatus, wsRef,
                           readyState, framesIn, uncaught>>

\* The rest of sendViaREST once fetch settles, then handleSend's setIsLoading(false).
RestResolve(j, outcome) ==
    /\ j \in DOMAIN calls
    /\ calls[j].status = "pending"
    /\ calls' = [calls EXCEPT ![j].status = IF outcome = "ok" THEN "ok" ELSE "failed"]
    /\ messages' = AppendMessage(messages, RestMessage(outcome))
    /\ isLoading' = FALSE
    /\ UNCHANGED <<phase, strictMode, wsUrlValid, input, connectionStatus, wsRef,
                   readyState, wsOut, submissions, framesIn, uncaught>>

Next ==
    \/ EffectRun
    \/ EffectCleanup
    \/ \E s \in Sockets : WsOpen(s)
    \/ \E s \in Sockets : WsStartClosing(s)
    \/ \E s \in Sockets : WsClosed(s)
    \/ \E s \in Sockets, f \in Frames : WsMessage(s, f)
    \/ \E s \in InputTexts : TypeInput(s)
    \/ HandleSend
    \/ \E j \in 1..MaxSubmits, outcome \in RestOutcomes : RestResolve(j, outcome)

Spec == Init /\ [][Next]_vars


(***************************************************************************)
(* Properties                                                              *)
(***************************************************************************)

\* The POST /chat calls issued for submission i.
CallsOf(i) == { j \in DOMAIN calls : calls[j].sub = i }

\* The frames written to a socket for submission i.
FramesOf(i) == { k \in DOMAIN wsOut : wsOut[k].sub = i }

PendingCalls == { j \in DOMAIN calls : calls[j].status = "pending" }

AssistantCount(msgs) == Cardinality({ k \in DOMAIN msgs : msgs[k].role = "assistant" })

ContainsWord(content, w) == \E k \in DOMAIN content : content[k] = w

\* C1 (as stated): a submission accepted while connectionStatus is 'connected'
\* issues no POST /chat call.
C1_ConnectedNoRest ==
    \A i \in DOMAIN submissions :
        submissions[i].status = "connected" => CallsOf(i) = {}

\* C1 (amended): a submission accepted while wsRef.current exists and its
\* readyState is OPEN issues no POST /chat call.
C1_OpenNoRest ==
    \A i \in DOMAIN submissions :
        submissions[i].wsOpen => CallsOf(i) = {}

C1_Witness ==
    \E i \in DOMAIN submissions :
        /\ submissions[i].wsOpen
        /\ submissions[i].status = "connected"
        /\ FramesOf(i) # {}
        /\ CallsOf(i) = {}

\* C2: a submission accepted while the socket is absent or not OPEN issues
\* exactly one POST /chat call, whose message is the submitted text and whose
\* history is the transcript as it stood before the user message was appended.
C2_OneCallWithPriorTranscript ==
    \A i \in DOMAIN submissions :
        ~submissions[i].wsOpen =>
            /\ Cardinality(CallsOf(i)) = 1
            /\ \A j \in CallsOf(i) :
                  /\ calls[j].body.history = submissions[i].before
                  /\ calls[j].body.message = submissions[i].content

C2_Witness ==
    \E i \in DOMAIN submissions :
        /\ ~submissions[i].wsOpen
        /\ Len(submissions[i].before) > 1
        /\ \E j \in CallsOf(i) : calls[j].body.history = submissions[i].before

\* C3: a POST /chat call that fails appends exactly one message, an assistant
\* message whose content contains the word "Error", changes nothing else in
\* the transcript, and lets no exception escape.
C3_FailureAppendsOneError ==
    [][ \A j \in DOMAIN calls :
           (calls[j].status = "pending" /\ calls'[j].status = "failed") =>
               /\ Len(messages') = Len(messages) + 1
               /\ SubSeq(messages', 1, Len(messages)) = messages
               /\ messages'[Len(messages')].role = "assistant"
               /\ ContainsWord(messages'[Len(messages')].content, "Error")
               /\ uncaught' = uncaught ]_vars

C3_Witness ==
    /\ \E j \in DOMAIN calls : calls[j].status = "failed"
    /\ messages[Len(messages)].role = "assistant"
    /\ ContainsWord(messages[Len(messages)].content, "HTTP error! status: 500")

\* C4: connectionStatus starts 'disconnected', never returns to 'disconnected'
\* once it has left it, and never becomes 'connected' once it is 'rest'.
C4_StatusMonotone ==
    /\ connectionStatus = "disconnected"
    /\ [][ /\ (connectionStatus # "disconnected" => connectionStatus' # "disconnected")
           /\ (connectionStatus = "rest" => connectionStatus' # "connected") ]_vars

\* C5: the assistant messages after the welcome message never outnumber the
\* accepted submissions.
C5_AtMostOneReplyPerSubmission ==
    AssistantCount(messages) - 1 <= Len(submissions)

\* C6: while a submission's POST /chat call is in flight, isLoading is true.
C6_LoadingWhileCallInFlight ==
    \A j \in DOMAIN calls : calls[j].status = "pending" => isLoading

\* C7: after a submission that went out on the socket, only an inbound
\* WebSocket frame turns isLoading from true to false.
C7_OnlyInboundFrameClearsLoading ==
    [][ ( /\ submissions # <<>>
          /\ FramesOf(Len(submissions)) # {}
          /\ isLoading
          /\ ~isLoading' ) => framesIn' = framesIn + 1 ]_vars

\* C8: the transcript starts as the single welcome message and every step
\* leaves it unchanged or extends it by one message at the end.
C8_AppendOnly ==
    /\ messages = << WelcomeMessage >>
    /\ [][ \/ messages' = messages
           \/ /\ Len(messages') = Len(messages) + 1
              /\ SubSeq(messages', 1, Len(messages)) = messages ]_vars

C8_Witness ==
    /\ Len(messages) >= 4
    /\ framesIn > 0
    /\ \E j \in DOMAIN calls : calls[j].status # "pending"

\* C9: no exception propagates out of a handler, whatever fails on either
\* transport.
C9_NoExceptionEscapes == uncaught = FALSE

\* C10: two POST /chat calls are never in flight at the same time.
C10_AtMostOneCallInFlight == Cardinality(PendingCalls) <= 1

====
